---------------------------- MODULE Spec2Model ----------------------------
(***************************************************************************)
(* Heat Transfer Analysis dashboard (src/app.py).                          *)
(*                                                                         *)
(* The script is re-executed top to bottom on every interaction and timer  *)
(* tick.  One run is modelled as a chain of steps (pc); the pure helper    *)
(* functions are operators.  Python floats are modelled as fixed-point     *)
(* integers counting 1/Res of the code's unit (Res = 10, the resolution of *)
(* the ambient slider), so 22.5 is 225 and the limit 50 is 50 * Res.       *)
(***************************************************************************)
EXTENDS Integers, Sequences, FiniteSets, TLC

VARIABLES
    df,             \* the reference dataset (line 51), a sequence of rows
    ws,             \* widget state kept by the UI between runs
    clicked,        \* the Calculate button was pressed to start this run
    pc,             \* position of the current script run
    resp,           \* what the live provider answered in this run
    tc, bs,         \* script variables (lines 140, 147)
    live_ambient, live_source,   \* line 158: None or a float
    atemp, stemp,   \* lines 168/173 and 188/193
    atemp_from, stemp_from,      \* which branch bound atemp / stemp
    run,            \* line 201
    issues,         \* line 205
    shown,          \* what the run has put on the page
    avg_t, max_t, ctr_t, eff, cool, mat,   \* lines 226-229
    predicted,      \* nearest_row_predict was called in this run
    error,          \* the exception that ended the run, or "none"
    fn, args, ret   \* a direct call of one helper: name, arguments, result

vars == <<df, ws, clicked, pc, resp, tc, bs, live_ambient, live_source,
          atemp, stemp, atemp_from, stemp_from, run, issues, shown,
          avg_t, max_t, ctr_t, eff, cool, mat, predicted, error,
          fn, args, ret>>

dashVars == <<ws, clicked, pc, resp, tc, bs, live_ambient, live_source,
              atemp, stemp, atemp_from, stemp_from, run, issues, shown,
              avg_t, max_t, ctr_t, eff, cool, mat, predicted, error>>

-----------------------------------------------------------------------------
(* Numbers                                                                 *)

\* Fixed-point resolution: a float x is the integer x * Res.
Res == 10

\* Largest number of rows of a modelled dataset.
MaxRows == 3

\* Python's None, and a float held in an optional slot.
None == <<>>
Some(v) == <<v>>

Max2(a, b) == IF b > a THEN b ELSE a
Min2(a, b) == IF b < a THEN b ELSE a

Abs(x) == IF x < 0 THEN -x ELSE x

RECURSIVE Gcd(_, _)
Gcd(a, b) == IF b = 0 THEN a ELSE Gcd(b, a % b)

\* A quotient of two fixed-point numbers is kept exact, as a fraction in
\* lowest terms with a positive denominator.
Ratio(n, d) ==
    LET g == Gcd(Abs(n), Abs(d))
        s == IF d < 0 THEN -1 ELSE 1
    IN  <<(s * n) \div g, (s * d) \div g>>

-----------------------------------------------------------------------------
(* Configuration                                                           *)

\* LIMITS, lines 54-59, in the code's units.
LIMITS ==
    [ThermalCond |-> <<50, 500>>,
     BlockSize   |-> <<5, 50>>,
     SourceTemp  |-> <<30, 150>>,
     AmbientTemp |-> <<0, 50>>]

\* The iteration order of LIMITS.items(): insertion order.
LimitKeys == <<"ThermalCond", "BlockSize", "SourceTemp", "AmbientTemp">>

-----------------------------------------------------------------------------
(* check_limits, lines 101-107                                             *)

\* The f-string of line 106.
LimitMessage(k, lo, hi) ==
    k \o " should be between " \o ToString(lo) \o " and " \o ToString(hi)

\* Fault variant of InRange: the range test excludes its upper end.
InRangeHalfOpen(lo, v, hi) == lo * Res <= v /\ v < hi * Res

\* lo <= v <= hi, line 105 (lo and hi are in the code's units).
InRange(lo, v, hi) == lo * Res <= v /\ v <= hi * Res

RECURSIVE CheckFrom(_, _, _)
CheckFrom(vals, i, acc) ==
    IF i > Len(LimitKeys) THEN acc
    ELSE LET k  == LimitKeys[i]
             lo == LIMITS[k][1]
             hi == LIMITS[k][2]
         IN  CheckFrom(vals, i + 1,
                 IF ~InRange(lo, vals[k], hi)
                 THEN Append(acc, LimitMessage(k, lo, hi))
                 ELSE acc)

check_limits(vals) == CheckFrom(vals, 1, <<>>)

-----------------------------------------------------------------------------
(* efficiency, lines 109-113                                               *)

\* Fault variant of efficiency: the division is made without the zero test.
EfficiencyUnguarded(max_temp, avg_temp, ambient_temp) ==
    LET denom == max_temp - ambient_temp
    IN  IF denom = 0 THEN [raised |-> "ZeroDivisionError", value |-> <<0, 1>>]
        ELSE [raised |-> "none", value |-> Ratio(max_temp - avg_temp, denom)]

\* The result is the value returned, or the exception raised.  A division by
\* zero raises ZeroDivisionError in Python; the guard of line 111 means the
\* division of line 113 is never made with denom = 0.
efficiency(max_temp, avg_temp, ambient_temp) ==
    LET denom == max_temp - ambient_temp
    IN  IF denom = 0 THEN [raised |-> "none", value |-> <<0, 1>>]
        ELSE [raised |-> "none", value |-> Ratio(max_temp - avg_temp, denom)]

-----------------------------------------------------------------------------
(* coolant_suggestion, lines 115-119; material_suggestion, lines 121-125   *)

\* Fault variant of coolant_suggestion: the thresholds are inclusive.
CoolantInclusive(avg_temp) ==
    IF avg_temp >= 80 * Res THEN "Liquid Nitrogen"
    ELSE IF avg_temp >= 60 * Res THEN "Water Cooling"
    ELSE IF avg_temp >= 40 * Res THEN "Oil Cooling"
    ELSE "Air Cooling"

coolant_suggestion(avg_temp) ==
    IF avg_temp > 80 * Res THEN "Liquid Nitrogen"
    ELSE IF avg_temp > 60 * Res THEN "Water Cooling"
    ELSE IF avg_temp > 40 * Res THEN "Oil Cooling"
    ELSE "Air Cooling"

\* Fault variant of material_suggestion: the thresholds are inclusive.
MaterialInclusive(t) ==
    IF t >= 300 * Res THEN "Copper"
    ELSE IF t >= 150 * Res THEN "Aluminium"
    ELSE IF t >= 80 * Res THEN "Steel"
    ELSE "Ceramic"

material_suggestion(t) ==
    IF t > 300 * Res THEN "Copper"
    ELSE IF t > 150 * Res THEN "Aluminium"
    ELSE IF t > 80 * Res THEN "Steel"
    ELSE "Ceramic"

-----------------------------------------------------------------------------
(* nearest_row_predict, lines 127-130                                      *)

Sq(x) == x * x

\* One entry of the d2 column of line 128.
Dist2(row, t, b, s, a) ==
    Sq(row.ThermalCond - t) + Sq(row.BlockSize - b)
        + Sq(row.SourceTemp - s) + Sq(row.AmbientTemp - a)

\* The d2 column.
D2Column(d, t, b, s, a) == [i \in 1..Len(d) |-> Dist2(d[i], t, b, s, a)]

\* Fault variant of idxmin: a later row replaces the best one when it is
\* equally near.
RECURSIVE ArgMinLastFrom(_, _, _)
ArgMinLastFrom(col, i, best) ==
    IF i > Len(col) THEN best
    ELSE ArgMinLastFrom(col, i + 1, IF col[i] <= col[best] THEN i ELSE best)

IdxMinLast(col) == ArgMinLastFrom(col, 2, 1)

\* Series.idxmin(): the label of the first occurrence of the minimum.  The
\* frame has its default index, so a label is a row position (1-based here).
RECURSIVE ArgMinFrom(_, _, _)
ArgMinFrom(col, i, best) ==
    IF i > Len(col) THEN best
    ELSE ArgMinFrom(col, i + 1, IF col[i] < col[best] THEN i ELSE best)

idxmin(col) == ArgMinFrom(col, 2, 1)

\* The row picked by line 129 (also the "nearest dataset match" of line 266).
NearestRow(d, t, b, s, a) == d[idxmin(D2Column(d, t, b, s, a))]

nearest_row_predict(d, t, b, s, a) ==
    LET row == NearestRow(d, t, b, s, a)
    IN  <<row.AvgTemp, row.MaxTemp, row.CenterTemp>>

-----------------------------------------------------------------------------
(* The live provider's answer and fetch_live_data, lines 69-98             *)

\* A JSON value of the feed: null, a string (a sequence of characters) or a
\* number.
JNull == [t |-> "null", s |-> <<>>, v |-> 0]
JStr(chars) == [t |-> "str", s |-> chars, v |-> 0]
JNum(x) == [t |-> "num", s |-> <<>>, v |-> x]

DigitVal ==
    ("0" :> 0) @@ ("1" :> 1) @@ ("2" :> 2) @@ ("3" :> 3) @@ ("4" :> 4) @@
    ("5" :> 5) @@ ("6" :> 6) @@ ("7" :> 7) @@ ("8" :> 8) @@ ("9" :> 9)

AllDigits(s) == \A i \in 1..Len(s) : s[i] \in DOMAIN DigitVal

RECURSIVE DigitsValue(_)
DigitsValue(s) ==
    IF s = <<>> THEN 0
    ELSE DigitsValue(SubSeq(s, 1, Len(s) - 1)) * 10 + DigitVal[s[Len(s)]]

\* float() of the text of an unsigned decimal: digits, with an optional
\* point and fraction.  Only the first fractional digit is representable at
\* this resolution; the strings of the model carry at most one.
ParseUnsigned(s) ==
    LET dots == {i \in 1..Len(s) : s[i] = "."}
        p    == IF dots = {} THEN Len(s) + 1
                ELSE CHOOSE i \in dots : \A j \in dots : i <= j
        ip   == SubSeq(s, 1, p - 1)
        fp   == SubSeq(s, p + 1, Len(s))
    IN  IF AllDigits(ip) /\ AllDigits(fp) /\ Len(ip) + Len(fp) > 0
        THEN [ok |-> TRUE,
              v  |-> DigitsValue(ip) * Res
                       + (IF fp = <<>> THEN 0 ELSE DigitVal[fp[1]] * (Res \div 10))]
        ELSE [ok |-> FALSE, v |-> 0]

\* float() of a string: an optional sign, then an unsigned decimal;
\* anything else raises ValueError (ok = FALSE).
ParseFloat(s) ==
    IF s # <<>> /\ s[1] = "-"
    THEN LET u == ParseUnsigned(Tail(s)) IN [ok |-> u.ok, v |-> -u.v]
    ELSE IF s # <<>> /\ s[1] = "+" THEN ParseUnsigned(Tail(s))
    ELSE ParseUnsigned(s)

\* float(x), line 88.
PyFloat(j) ==
    IF j.t = "num" THEN [ok |-> TRUE, v |-> j.v]
    ELSE IF j.t = "str" THEN ParseFloat(j.s)
    ELSE [ok |-> FALSE, v |-> 0]

\* Python's truth value of a JSON value, as tested on line 86: None, the
\* empty string and a zero number are false.
Truthy(j) ==
    IF j.t = "null" THEN FALSE
    ELSE IF j.t = "str" THEN j.s # <<>>
    ELSE j.v # 0

\* data.get(key), lines 83-84: None when the key is absent.
DictGet(data, key) == IF key \in DOMAIN data THEN data[key] ELSE JNull

\* Fault variant of fetch_live_data: a reading is returned as soon as its
\* own field is usable.
FetchEachAlone(r) ==
    IF r.kind # "ok" THEN [live |-> <<None, None>>, notice |-> "error"]
    ELSE LET a == DictGet(r.data, "field1")
             s == DictGet(r.data, "field2")
             fa == PyFloat(a)
             fs == PyFloat(s)
         IN  [live |-> <<IF Truthy(a) /\ fa.ok THEN Some(fa.v) ELSE None,
                         IF Truthy(s) /\ fs.ok THEN Some(fs.v) ELSE None>>,
              notice |-> "none"]

\* fetch_live_data().  The kinds of answer: "ok" (a JSON object, r.data);
\* "timeout" and "connection" (requests.get raises), "http_error"
\* (raise_for_status raises), "bad_json" (response.json() raises) and
\* "not_object" (valid JSON that has no .get): each is caught by one of the
\* two except clauses, which report with st.error and return (None, None).
fetch_live_data(r) ==
    IF r.kind # "ok" THEN [live |-> <<None, None>>, notice |-> "error"]
    ELSE LET t_ambient == DictGet(r.data, "field1")
             t_source  == DictGet(r.data, "field2")
         IN  IF Truthy(t_ambient) /\ Truthy(t_source)
             THEN LET fa == PyFloat(t_ambient)
                      fs == PyFloat(t_source)
                  IN  IF fa.ok /\ fs.ok
                      THEN [live |-> <<Some(fa.v), Some(fs.v)>>, notice |-> "none"]
                      ELSE [live |-> <<None, None>>, notice |-> "error"]
             ELSE [live |-> <<None, None>>, notice |-> "warning"]

\* max(lo, min(hi, x)), lines 168 and 188.
Clamp(lo, hi, x) == Max2(lo * Res, Min2(hi * Res, x))

-----------------------------------------------------------------------------
(* Inputs of the model                                                     *)

Row(t, b, s, a, avg, mx, ctr) ==
    [ThermalCond |-> t, BlockSize |-> b, SourceTemp |-> s, AmbientTemp |-> a,
     AvgTemp |-> avg, MaxTemp |-> mx, CenterTemp |-> ctr]

SeqsUpTo(S, n) == UNION {[1..k -> S] : k \in 1..n}

\* Rows of the datasets the helpers are called on: two rows with the same
\* inputs and different outputs, and two more at equal distances of some
\* queries.
FnRows ==
    {Row(1000, 100, 600, 250, 450, 550, 500),
     Row(1000, 100, 600, 250, 700, 900, 800),
     Row(3000, 100, 600, 250, 850, 850, 900),
     Row(1000, 500, 900, 250, 300, 250, 280)}

\* Rows of the datasets the dashboard runs on.
DashRows ==
    {Row(1000, 100, 600, 250, 450, 550, 500),
     Row(3000, 100, 600, 250, 850, 250, 900)}

\* The datasets the dashboard runs on: every order of two of these rows.
DashData == [{1, 2} -> DashRows]

\* Values the user can leave in each widget (each within the widget's
\* min_value..max_value, lines 142, 149, 174, 194).
WidgetChoices ==
    [tc             |-> {500, 1000, 3000, 5000},
     bs             |-> {100, 500},
     ambient_slider |-> {0, 250, 255},
     source_slider  |-> {600, 1500}]

\* The widgets' value= arguments: lines 142, 149, 172, 192.
WidgetDefaults ==
    [tc |-> 100 * Res, bs |-> 10 * Res,
     ambient_slider |-> 25 * Res, source_slider |-> 60 * Res]

\* Values a field of the feed can hold.
JsonVals ==
    {JNull, JStr(<<>>), JStr(<<"a", "b", "c">>),
     JStr(<<"2", "2", ".", "5">>), JStr(<<"6", "5", ".", "0">>),
     JStr(<<"2", "0", "0">>), JStr(<<"-", "5">>), JStr(<<"0">>),
     JNum(0), JNum(225)}

FeedKeys == {"field1", "field2"}

NoData == [k \in {} |-> JNull]

Responses ==
    {[kind |-> "ok", data |-> d] :
        d \in UNION {[D -> JsonVals] : D \in SUBSET FeedKeys}}
    \cup {[kind |-> k, data |-> NoData] :
            k \in {"timeout", "connection", "http_error", "bad_json", "not_object"}}

NoResp == [kind |-> "none", data |-> NoData]

-----------------------------------------------------------------------------
(* The script run, lines 136-269                                           *)

BlankPage ==
    [notice |-> "none", badge |-> FALSE, errors |-> <<>>, inputs |-> <<>>,
     results |-> <<>>, nearest |-> <<>>, info |-> FALSE]

\* The state a run starts from: nothing bound, nothing on the page.
RunStart(c) ==
    /\ clicked' = c
    /\ pc' = "inputs"
    /\ resp' = NoResp
    /\ tc' = 0 /\ bs' = 0
    /\ live_ambient' = None /\ live_source' = None
    /\ atemp' = 0 /\ stemp' = 0
    /\ atemp_from' = "unbound" /\ stemp_from' = "unbound"
    /\ run' = FALSE
    /\ issues' = <<>>
    /\ shown' = BlankPage
    /\ avg_t' = 0 /\ max_t' = 0 /\ ctr_t' = 0
    /\ eff' = <<0, 1>> /\ cool' = "" /\ mat' = ""
    /\ predicted' = FALSE
    /\ error' = "none"

\* A press of Calculate reruns the script with the button reading True.
Click ==
    /\ pc = "done"
    /\ RunStart(TRUE)
    /\ UNCHANGED <<df, ws, fn, args, ret>>

\* The st_autorefresh timer of line 17 reruns the script.
Tick ==
    /\ pc = "done"
    /\ RunStart(FALSE)
    /\ UNCHANGED <<df, ws, fn, args, ret>>

\* The user changes one widget of the page, which reruns the script.  A
\* slider is on the page only if the last run took its fallback branch.
Edit ==
    /\ pc = "done"
    /\ \E w \in DOMAIN WidgetChoices : \E v \in WidgetChoices[w] :
          /\ v # ws[w]
          /\ w = "ambient_slider" => atemp_from = "manual"
          /\ w = "source_slider" => stemp_from = "manual"
          /\ ws' = [ws EXCEPT ![w] = v]
    /\ RunStart(FALSE)
    /\ UNCHANGED <<df, fn, args, ret>>

\* Lines 140-152: the two number inputs.
NumberInputs ==
    /\ pc = "inputs"
    /\ tc' = ws.tc
    /\ bs' = ws.bs
    /\ pc' = "fetch"
    /\ UNCHANGED <<df, ws, clicked, resp, live_ambient, live_source, atemp,
                   stemp, atemp_from, stemp_from, run, issues, shown, avg_t,
                   max_t, ctr_t, eff, cool, mat, predicted, error, fn, args, ret>>

\* Line 158.
Fetch ==
    /\ pc = "fetch"
    /\ \E r \in Responses :
          LET got == fetch_live_data(r)
          IN  /\ resp' = r
              /\ live_ambient' = got.live[1]
              /\ live_source' = got.live[2]
              /\ shown' = [shown EXCEPT !.notice = got.notice]
    /\ pc' = "ambient"
    /\ UNCHANGED <<df, ws, clicked, tc, bs, atemp, stemp, atemp_from,
                   stemp_from, run, issues, avg_t, max_t, ctr_t, eff, cool,
                   mat, predicted, error, fn, args, ret>>

\* Lines 162-176.
AmbientInput ==
    /\ pc = "ambient"
    /\ IF live_ambient # None
       THEN /\ atemp' = Clamp(LIMITS.AmbientTemp[1], LIMITS.AmbientTemp[2],
                              live_ambient[1])
            /\ atemp_from' = "live"
       ELSE /\ atemp' = ws.ambient_slider
            /\ atemp_from' = "manual"
    /\ pc' = "source"
    /\ UNCHANGED <<df, ws, clicked, resp, tc, bs, live_ambient, live_source,
                   stemp, stemp_from, run, issues, shown, avg_t, max_t, ctr_t,
                   eff, cool, mat, predicted, error, fn, args, ret>>

\* Lines 182-196.
SourceInput ==
    /\ pc = "source"
    /\ IF live_source # None
       THEN /\ stemp' = Clamp(LIMITS.SourceTemp[1], LIMITS.SourceTemp[2],
                              live_source[1])
            /\ stemp_from' = "live"
       ELSE /\ stemp' = ws.source_slider
            /\ stemp_from' = "manual"
    /\ pc' = "button"
    /\ UNCHANGED <<df, ws, clicked, resp, tc, bs, live_ambient, live_source,
                   atemp, atemp_from, run, issues, shown, avg_t, max_t, ctr_t,
                   eff, cool, mat, predicted, error, fn, args, ret>>

\* Lines 199-201.
Button ==
    /\ pc = "button"
    /\ run' = clicked
    /\ pc' = "validate"
    /\ UNCHANGED <<df, ws, clicked, resp, tc, bs, live_ambient, live_source,
                   atemp, stemp, atemp_from, stemp_from, issues, shown, avg_t,
                   max_t, ctr_t, eff, cool, mat, predicted, error, fn, args, ret>>

\* Lines 204-221: the validation block, then the four input cards.
Validate ==
    /\ pc = "validate"
    /\ LET values == [ThermalCond |-> tc, BlockSize |-> bs,
                      SourceTemp |-> stemp, AmbientTemp |-> atemp]
           found  == check_limits(values)
       IN  /\ issues' = found
           /\ shown' = [shown EXCEPT !.badge = (found # <<>>),
                                     !.errors = found,
                                     !.inputs = <<tc, bs, stemp, atemp>>]
    /\ pc' = "results"
    /\ UNCHANGED <<df, ws, clicked, resp, tc, bs, live_ambient, live_source,
                   atemp, stemp, atemp_from, stemp_from, run, avg_t, max_t,
                   ctr_t, eff, cool, mat, predicted, error, fn, args, ret>>

\* The names bound in the module's namespace when line 228 is reached (the
\* names assigned at module level before it; default_atemp and
\* default_stemp are bound only in the slider branches and are left out).
ModuleGlobals ==
    {"pd", "np", "st", "Path", "go", "requests", "st_autorefresh",
     "DATA_PATH", "df", "LIMITS", "THINGSPEAK_CHANNEL_ID",
     "THINGSPEAK_READ_API_KEY", "fetch_live_data", "check_limits",
     "efficiency", "coolant_suggestion", "material_suggestion",
     "nearest_row_predict", "tc", "bs", "live_ambient", "live_source",
     "atemp_min", "atemp_max", "atemp", "stemp_min", "stemp_max", "stemp",
     "run", "values", "issues", "box1", "box2", "box3", "box4",
     "avg_t", "max_t", "ctr_t", "eff"}

\* The name passed to coolant_suggestion on line 228.
CoolantArgName == "avg_temp"

\* Fault variant of ShouldPredict: the button is not consulted.
ShouldPredictAlways(r, found) == found = <<>>

\* The condition of line 224: run and not issues.
ShouldPredict(r, found) == r /\ found = <<>>

\* Lines 224-269.  Evaluating a name that is not bound raises NameError,
\* which ends the run before anything of the block is displayed.
Results ==
    /\ pc = "results"
    /\ IF ShouldPredict(run, issues)
       THEN LET p   == nearest_row_predict(df, tc, bs, stemp, atemp)
                e   == efficiency(p[2], p[1], atemp)
                env == [avg_t |-> p[1], max_t |-> p[2], ctr_t |-> p[3],
                        tc |-> tc, bs |-> bs, atemp |-> atemp, stemp |-> stemp]
            IN  /\ predicted' = TRUE
                /\ avg_t' = p[1] /\ max_t' = p[2] /\ ctr_t' = p[3]
                /\ IF e.raised # "none"
                   THEN /\ error' = e.raised
                        /\ UNCHANGED <<eff, cool, mat, shown>>
                   ELSE IF CoolantArgName \notin ModuleGlobals
                   THEN /\ eff' = e.value
                        /\ error' = "NameError"
                        /\ UNCHANGED <<cool, mat, shown>>
                   ELSE /\ eff' = e.value
                        /\ cool' = coolant_suggestion(env[CoolantArgName])
                        /\ mat' = material_suggestion(tc)
                        /\ error' = "none"
                        /\ shown' =
                             [shown EXCEPT
                                !.results = <<[avg |-> p[1], max |-> p[2],
                                               ctr |-> p[3], eff |-> e.value,
                                               cool |-> cool', mat |-> mat']>>,
                                !.nearest = <<NearestRow(df, tc, bs, stemp, atemp)>>]
       ELSE /\ shown' = [shown EXCEPT !.info = TRUE]
            /\ UNCHANGED <<avg_t, max_t, ctr_t, eff, cool, mat, predicted, error>>
    /\ pc' = "done"
    /\ UNCHANGED <<df, ws, clicked, resp, tc, bs, live_ambient, live_source,
                   atemp, stemp, atemp_from, stemp_from, run, issues,
                   fn, args, ret>>

-----------------------------------------------------------------------------
(* The dashboard                                                           *)

NoCall == /\ fn = "none" /\ args = <<>> /\ ret = <<>>

\* The first run of a session: every widget at its default.
FirstRun ==
    /\ ws = WidgetDefaults
    /\ clicked = FALSE
    /\ pc = "inputs"
    /\ resp = NoResp
    /\ tc = 0 /\ bs = 0
    /\ live_ambient = None /\ live_source = None
    /\ atemp = 0 /\ stemp = 0
    /\ atemp_from = "unbound" /\ stemp_from = "unbound"
    /\ run = FALSE
    /\ issues = <<>>
    /\ shown = BlankPage
    /\ avg_t = 0 /\ max_t = 0 /\ ctr_t = 0
    /\ eff = <<0, 1>> /\ cool = "" /\ mat = ""
    /\ predicted = FALSE
    /\ error = "none"

Init ==
    /\ df \in DashData
    /\ FirstRun
    /\ NoCall

Next ==
    \/ Click \/ Tick \/ Edit
    \/ NumberInputs \/ Fetch \/ AmbientInput \/ SourceInput
    \/ Button \/ Validate \/ Results

Spec == Init /\ [][Next]_vars

-----------------------------------------------------------------------------
(* The helpers called directly, on inputs beyond what the widgets allow:   *)
(* one call on one dataset per behaviour                                   *)

\* Values around both ends of each range of LIMITS.
LimitProbes ==
    [ThermalCond |-> {499, 500, 2000, 5000, 5001},
     BlockSize   |-> {49, 50, 200, 500, 501},
     SourceTemp  |-> {299, 300, 900, 1500, 1501},
     AmbientTemp |-> {-1, 0, 250, 500, 501}]

TempProbes == {200, 300, 500, 1000}

CoolantProbes == {-50, 399, 400, 401, 599, 600, 601, 799, 800, 801, 2000}

MaterialProbes == {500, 799, 800, 801, 1499, 1500, 1501, 2999, 3000, 3001, 5000}

QueryProbes == {1000, 2000, 3000} \X {100, 500} \X {600, 900} \X {250}

CallCheckLimits ==
    /\ fn = "none"
    /\ \E v \in [ThermalCond : LimitProbes.ThermalCond,
                 BlockSize   : LimitProbes.BlockSize,
                 SourceTemp  : LimitProbes.SourceTemp,
                 AmbientTemp : LimitProbes.AmbientTemp] :
          /\ fn' = "check_limits"
          /\ args' = v
          /\ ret' = check_limits(v)
    /\ UNCHANGED <<df, dashVars>>

CallEfficiency ==
    /\ fn = "none"
    /\ \E m \in TempProbes, a \in TempProbes, b \in TempProbes :
          /\ fn' = "efficiency"
          /\ args' = <<m, a, b>>
          /\ ret' = efficiency(m, a, b)
    /\ UNCHANGED <<df, dashVars>>

CallCoolant ==
    /\ fn = "none"
    /\ \E a \in CoolantProbes :
          /\ fn' = "coolant_suggestion"
          /\ args' = <<a>>
          /\ ret' = coolant_suggestion(a)
    /\ UNCHANGED <<df, dashVars>>

CallMaterial ==
    /\ fn = "none"
    /\ \E t \in MaterialProbes :
          /\ fn' = "material_suggestion"
          /\ args' = <<t>>
          /\ ret' = material_suggestion(t)
    /\ UNCHANGED <<df, dashVars>>

CallPredict ==
    /\ fn = "none"
    /\ \E q \in QueryProbes :
          /\ fn' = "nearest_row_predict"
          /\ args' = q
          /\ ret' = nearest_row_predict(df, q[1], q[2], q[3], q[4])
    /\ UNCHANGED <<df, dashVars>>

InitFn ==
    /\ df \in SeqsUpTo(FnRows, MaxRows)
    /\ FirstRun
    /\ NoCall

NextFn ==
    \/ CallCheckLimits \/ CallEfficiency \/ CallCoolant
    \/ CallMaterial \/ CallPredict

SpecFn == InitFn /\ [][NextFn]_vars

-----------------------------------------------------------------------------
(* Properties of the helpers (checked under SpecFn)                        *)

\* The squared distance of a row to a query <<tc, bs, stemp, atemp>>, each
\* of the four inputs with weight one.
SqEuclid(r, q) ==
    (r.ThermalCond - q[1]) * (r.ThermalCond - q[1])
    + (r.BlockSize - q[2]) * (r.BlockSize - q[2])
    + (r.SourceTemp - q[3]) * (r.SourceTemp - q[3])
    + (r.AmbientTemp - q[4]) * (r.AmbientTemp - q[4])

Outputs(r) == <<r.AvgTemp, r.MaxTemp, r.CenterTemp>>

\* C1: on a non-empty dataset nearest_row_predict returns the AvgTemp,
\* MaxTemp and CenterTemp of a row at the least squared distance from the
\* query, and of the first such row in dataset order when several rows are
\* at that distance.
C1_NearestFirstRow ==
    fn = "nearest_row_predict" =>
        \E i \in 1..Len(df) :
            /\ \A j \in 1..Len(df) : SqEuclid(df[i], args) <= SqEuclid(df[j], args)
            /\ \A j \in 1..(i - 1) : SqEuclid(df[j], args) > SqEuclid(df[i], args)
            /\ ret = Outputs(df[i])

\* A call where the least distance is shared by two rows with different
\* outputs, neither of them the first row of the dataset.
C1_TieAfterFirstRow ==
    /\ fn = "nearest_row_predict"
    /\ \E i, k \in 2..Len(df) :
          /\ i < k
          /\ SqEuclid(df[i], args) = SqEuclid(df[k], args)
          /\ Outputs(df[i]) # Outputs(df[k])
          /\ \A j \in 1..Len(df) : SqEuclid(df[i], args) <= SqEuclid(df[j], args)
          /\ SqEuclid(df[1], args) > SqEuclid(df[i], args)
          /\ ret = Outputs(df[i])

\* The four fields in their fixed order, each with its range (in 1/Res) and
\* the text of its message.
LimitTable ==
    <<[k |-> "ThermalCond", lo |-> 500, hi |-> 5000,
       msg |-> "ThermalCond should be between 50 and 500"],
      [k |-> "BlockSize", lo |-> 50, hi |-> 500,
       msg |-> "BlockSize should be between 5 and 50"],
      [k |-> "SourceTemp", lo |-> 300, hi |-> 1500,
       msg |-> "SourceTemp should be between 30 and 150"],
      [k |-> "AmbientTemp", lo |-> 0, hi |-> 500,
       msg |-> "AmbientTemp should be between 0 and 50"]>>

Outside(e, v) == v[e.k] < e.lo \/ v[e.k] > e.hi

\* The messages of the first n fields that are out of range, in order.
RECURSIVE MessagesUpTo(_, _)
MessagesUpTo(v, n) ==
    IF n = 0 THEN <<>>
    ELSE IF Outside(LimitTable[n], v)
         THEN Append(MessagesUpTo(v, n - 1), LimitTable[n].msg)
         ELSE MessagesUpTo(v, n - 1)

\* C3: check_limits returns exactly one message "<field> should be between
\* <min> and <max>" for each field below its min or above its max, none for
\* a field at its min, at its max or between them, in the order ThermalCond,
\* BlockSize, SourceTemp, AmbientTemp; the list is empty iff all four fields
\* are in range.
C3_LimitMessages ==
    fn = "check_limits" =>
        /\ ret = MessagesUpTo(args, 4)
        /\ (ret = <<>>) <=> (\A n \in 1..4 : ~Outside(LimitTable[n], args))
        /\ \A n \in 1..4 :
              Cardinality({i \in 1..Len(ret) : ret[i] = LimitTable[n].msg})
                  = IF Outside(LimitTable[n], args) THEN 1 ELSE 0

\* A call with one field at its max, one at its min and the other two just
\* outside: two messages, in field order.
C3_BoundaryAndOutside ==
    /\ fn = "check_limits"
    /\ args.ThermalCond = 5000
    /\ args.BlockSize = 501
    /\ args.SourceTemp = 300
    /\ args.AmbientTemp = -1
    /\ ret = <<"BlockSize should be between 5 and 50",
               "AmbientTemp should be between 0 and 50">>

\* C5: efficiency(max_temp, avg_temp, ambient_temp) never raises; it returns
\* exactly 0 when max_temp = ambient_temp, and otherwise the unclamped
\* quotient (max_temp - avg_temp) / (max_temp - ambient_temp).
C5_EfficiencyTotal ==
    fn = "efficiency" =>
        LET m == args[1]
            a == args[2]
            b == args[3]
        IN  /\ ret.raised = "none"
            /\ m = b => ret.value = <<0, 1>>
            /\ m # b => /\ ret.value[2] > 0
                        /\ ret.value[1] * (m - b) = (m - a) * ret.value[2]

\* A call with a zero denominator and a non-zero numerator.
C5_ZeroDenominator ==
    /\ fn = "efficiency"
    /\ args[1] = args[3]
    /\ args[2] # args[1]
    /\ ret = [raised |-> "none", value |-> <<0, 1>>]

\* C8: coolant_suggestion returns "Liquid Nitrogen" iff avg_temp > 80,
\* "Water Cooling" iff 60 < avg_temp <= 80, "Oil Cooling" iff
\* 40 < avg_temp <= 60 and "Air Cooling" iff avg_temp <= 40, so a value at
\* a threshold gets the next lower tier.
C8_CoolantLadder ==
    fn = "coolant_suggestion" =>
        LET a == args[1]
        IN  /\ (ret = "Liquid Nitrogen") <=> (a > 800)
            /\ (ret = "Water Cooling") <=> (600 < a /\ a <= 800)
            /\ (ret = "Oil Cooling") <=> (400 < a /\ a <= 600)
            /\ (ret = "Air Cooling") <=> (a <= 400)

\* A call at the threshold 80.
C8_AtThreshold ==
    /\ fn = "coolant_suggestion"
    /\ args = <<800>>
    /\ ret = "Water Cooling"

\* C9: material_suggestion returns "Copper" iff tc > 300, "Aluminium" iff
\* 150 < tc <= 300, "Steel" iff 80 < tc <= 150 and "Ceramic" iff tc <= 80,
\* so a value at a threshold gets the next lower tier.
C9_MaterialLadder ==
    fn = "material_suggestion" =>
        LET t == args[1]
        IN  /\ (ret = "Copper") <=> (t > 3000)
            /\ (ret = "Aluminium") <=> (1500 < t /\ t <= 3000)
            /\ (ret = "Steel") <=> (800 < t /\ t <= 1500)
            /\ (ret = "Ceramic") <=> (t <= 800)

\* A call at the threshold 300.
C9_AtThreshold ==
    /\ fn = "material_suggestion"
    /\ args = <<3000>>
    /\ ret = "Aluminium"

-----------------------------------------------------------------------------
(* Properties of the dashboard (checked under Spec)                        *)

PastFetch == {"ambient", "source", "button", "validate", "results", "done"}
PastSource == {"button", "validate", "results", "done"}
PastValidate == {"results", "done"}

\* All four inputs of the run are within their configured ranges.
InputsInRange ==
    /\ 500 <= tc /\ tc <= 5000
    /\ 50 <= bs /\ bs <= 500
    /\ 300 <= stemp /\ stemp <= 1500
    /\ 0 <= atemp /\ atemp <= 500

\* C2: a run in which the calculate trigger is set and all four inputs are
\* in range completes without an unhandled error and displays the three
\* predicted temperatures, the efficiency, the coolant label of the
\* predicted AvgTemp and the material label of the thermal conductivity.
C2_RunDisplaysResults ==
    (pc = "done" /\ run /\ InputsInRange) =>
        /\ error = "none"
        /\ shown.results # <<>>
        /\ shown.results[1].avg = NearestRow(df, tc, bs, stemp, atemp).AvgTemp
        /\ shown.results[1].max = NearestRow(df, tc, bs, stemp, atemp).MaxTemp
        /\ shown.results[1].ctr = NearestRow(df, tc, bs, stemp, atemp).CenterTemp
        /\ shown.results[1].cool = coolant_suggestion(shown.results[1].avg)
        /\ shown.results[1].mat = material_suggestion(tc)

IsNumeric(j) == j.t = "num" \/ (j.t = "str" /\ ParseFloat(j.s).ok)

NumericValue(j) == IF j.t = "num" THEN j.v ELSE ParseFloat(j.s).v

ClampTo(lo, hi, x) == IF x < lo THEN lo ELSE IF x > hi THEN hi ELSE x

BothNumeric ==
    /\ resp.kind = "ok"
    /\ FeedKeys \subseteq DOMAIN resp.data
    /\ IsNumeric(resp.data["field1"])
    /\ IsNumeric(resp.data["field2"])

\* C6: whenever the provider returns both field1 and field2 as numbers or
\* numeric strings, the ambient value used is field1 clamped into [0,50] and
\* the source value used is field2 clamped into [30,150], whatever the
\* sliders hold.
C6_LiveOverridesManual ==
    (pc \in PastSource /\ BothNumeric) =>
        /\ atemp = ClampTo(0, 500, NumericValue(resp.data["field1"]))
        /\ stemp = ClampTo(300, 1500, NumericValue(resp.data["field2"]))

\* A field of the feed that is missing, null or not the text of a number.
Unreadable(data, k) ==
    \/ k \notin DOMAIN data
    \/ data[k].t = "null"
    \/ (data[k].t = "str" /\ ~ParseFloat(data[k].s).ok)

FetchGaveNothing ==
    \/ resp.kind \in {"timeout", "connection", "http_error", "bad_json", "not_object"}
    \/ /\ resp.kind = "ok"
       /\ (Unreadable(resp.data, "field1") \/ Unreadable(resp.data, "field2"))

\* C7: whenever the fetch fails, times out, returns a bad status, or returns
\* a response in which field1 or field2 is missing, null or non-numeric,
\* fetch_live_data returns (None, None) without raising, the run goes on
\* with the manual ambient and source values, which lie within [0,50] and
\* [30,150], and no unhandled error escapes.
C7_FallbackWithoutError ==
    (pc \in PastFetch /\ FetchGaveNothing) =>
        /\ live_ambient = None /\ live_source = None
        /\ pc \in PastSource =>
              /\ atemp = ws.ambient_slider /\ 0 <= atemp /\ atemp <= 500
              /\ stemp = ws.source_slider /\ 300 <= stemp /\ stemp <= 1500
        /\ error = "none"

\* A field of the feed that is missing, null, empty, a zero number or not
\* the text of a number.
Unusable(data, k) ==
    \/ Unreadable(data, k)
    \/ data[k] = JNum(0)

=============================================================================
